---- MODULE Spec2Model ----
(***************************************************************************)
(* A model of solutions/threadpool_task3.c: a pool of NUM_HANDLER_THREADS  *)
(* worker threads draining a linked list of requests under request_mutex,  *)
(* sleeping on the condition variable got_request, and a producer (main)   *)
(* that submits one request per array element, sets quit under quit_mutex, *)
(* broadcasts and joins the workers.                                       *)
(***************************************************************************)
EXTENDS Integers, Sequences, FiniteSets, TLC

\* #define NUM_HANDLER_THREADS 3
NUM_HANDLER_THREADS == 3

\* Number of leading elements of main's array that the bounded producer submits.
ArraySize == 3

\* Number of leading elements submitted in the runs checked for termination
\* and in the runs with a submitting work function.
SmallArraySize == 1

\* Number of submitted items whose work function may submit a follow-up item.
MaxFollowUps == 1

\* int array[] = {1, 12, 21323, 12, 31312, 1, 13, 3,5 ,7, 8, 9,943};
InputArray == <<1, 12, 21323, 12, 31312, 1, 13, 3, 5, 7, 8, 9, 943>>

\* The array after the run, as the square-in-place scenario lists it. Its
\* fifth value differs from 31312 * 31312 = 980441344.
SquaredArray == <<1, 144, 454670329, 144, 980440944, 1, 169, 9, 25, 49, 64, 81, 889249>>

\* The main thread and the request-handling threads.
Main == 0
Workers == 1..NUM_HANDLER_THREADS
Threads == {Main} \cup Workers

\* The NULL pointer; request records are addressed 1, 2, ... in malloc order.
NULL == 0

\* The owner value of an unlocked pthread mutex.
Unlocked == -1

\* The value of a pointer variable after the record it pointed to was freed.
Indeterminate == -2

VARIABLES
    request_mutex,  \* owner of request_mutex, or Unlocked
    quit_mutex,     \* owner of quit_mutex, or Unlocked
    waiters,        \* threads blocked in pthread_cond_wait(&got_request, ...)
    num_requests,   \* int num_requests
    quit,           \* int quit
    requests,       \* struct request *requests (head)
    last_request,   \* struct request *last_request (tail)
    heap,           \* the malloc'ed struct request records, by address
    array,          \* main's int array[]
    work,           \* the function main submits with each array element
    i,              \* main's loop counter
    pc,             \* each thread's position in its code
    a_request,      \* handle_requests_loop's local a_request, per worker
    running,        \* handle_requests_loop's local running, per worker
    new_request,    \* add_request's local a_request, per calling thread
    late,           \* history: the thread's current add_request call began with quit set
    enq_log,        \* history: the records appended by add_request, in order
    deq_log,        \* history: the records removed by get_request, in order
    invoked         \* history: how many times each record's function was invoked

vars == <<request_mutex, quit_mutex, waiters, num_requests, quit, requests,
          last_request, heap, array, work, i, pc, a_request, running,
          new_request, late, enq_log, deq_log, invoked>>

sync == <<request_mutex, quit_mutex, waiters>>
queue == <<num_requests, requests, last_request>>
locals == <<a_request, running, new_request>>
history == <<late, enq_log, deq_log, invoked>>

(***************************************************************************)
(* Pure parts of the code.                                                 *)
(***************************************************************************)

\* A 32-bit int as its two 16-bit halves <<high, low>> (two's complement),
\* and back. The halves keep every intermediate value within 32 bits.
Half16 == 65536

ToWord(x) == <<(x \div Half16) % Half16, x % Half16>>

FromWord(u) ==
    IF u[1] >= Half16 \div 2
    THEN (u[1] - Half16) * Half16 + u[2]
    ELSE u[1] * Half16 + u[2]

\* u + v modulo 2^32
AddWord(u, v) ==
    LET lo == u[2] + v[2]
        hi == u[1] + v[1] + lo \div Half16
    IN  <<hi % Half16, lo % Half16>>

\* u shifted right by one bit
ShiftRight(u) == <<u[1] \div 2, u[2] \div 2 + (u[1] % 2) * (Half16 \div 2)>>

\* u * v modulo 2^32, by doubling u along the bits of v
RECURSIVE MulWord(_, _)
MulWord(u, v) ==
    IF v = <<0, 0>> THEN <<0, 0>>
    ELSE LET rest == MulWord(AddWord(u, u), ShiftRight(v))
         IN  IF v[2] % 2 = 1 THEN AddWord(u, rest) ELSE rest

\* The result of the C expression a * b on 32-bit ints, as the build
\* computes it: the low 32 bits of the product.
IntMul(a, b) == FromWord(MulWord(ToWord(a), ToWord(b)))

\* void squareValue(void *arg): the new value of *arg.
squareValue(value) == IntMul(value, value)

\* add_request's construction of the record: func, data, next = NULL.
\* freed is the allocator's mark of a record passed to free().
NewRequest(func, data) ==
    [func |-> func, data |-> data, next |-> NULL, freed |-> FALSE]

\* Enqueue that counts only the record appended to an empty list.
EnqueueWithoutCount(a_req) ==
    [requests     |-> IF num_requests = 0 THEN a_req ELSE requests,
     last_request |-> a_req,
     heap         |-> IF num_requests = 0
                      THEN heap
                      ELSE [heap EXCEPT ![last_request].next = a_req],
     num_requests |-> IF num_requests = 0 THEN 1 ELSE num_requests]

\* Enqueue with the new record linked in front of the head.
EnqueueAtHead(a_req) ==
    [requests     |-> a_req,
     last_request |-> IF num_requests = 0 THEN a_req ELSE last_request,
     heap         |-> [heap EXCEPT ![a_req].next =
                          IF num_requests = 0 THEN NULL ELSE requests],
     num_requests |-> num_requests + 1]

\* add_request's update of the list under the mutex: the new tail a_req is
\* linked after last_request unless the list is empty, and num_requests++.
Enqueue(a_req) ==
    [requests     |-> IF num_requests = 0 THEN a_req ELSE requests,
     last_request |-> a_req,
     heap         |-> IF num_requests = 0
                      THEN heap
                      ELSE [heap EXCEPT ![last_request].next = a_req],
     num_requests |-> num_requests + 1]

\* get_request without the advance of the head: requests = a_request->next.
get_request_keeps_head ==
    IF num_requests > 0
    THEN [a_request    |-> requests,
          requests     |-> requests,
          last_request |-> last_request,
          num_requests |-> num_requests - 1]
    ELSE [a_request    |-> NULL,
          requests     |-> requests,
          last_request |-> last_request,
          num_requests |-> num_requests]

\* get_request without the reset of last_request when the list empties.
get_request_keeps_tail ==
    IF num_requests > 0
    THEN [a_request    |-> requests,
          requests     |-> heap[requests].next,
          last_request |-> last_request,
          num_requests |-> num_requests - 1]
    ELSE [a_request    |-> NULL,
          requests     |-> requests,
          last_request |-> last_request,
          num_requests |-> num_requests]

\* get_request returning the most recently allocated record, queued or not.
get_request_returns_newest ==
    IF num_requests > 0
    THEN [a_request    |-> Len(heap),
          requests     |-> heap[requests].next,
          last_request |-> IF heap[requests].next = NULL
                           THEN NULL ELSE last_request,
          num_requests |-> num_requests - 1]
    ELSE [a_request    |-> NULL,
          requests     |-> requests,
          last_request |-> last_request,
          num_requests |-> num_requests]

\* struct request *get_request(): the returned pointer and the list after it.
get_request ==
    IF num_requests > 0
    THEN LET nxt == heap[requests].next
         IN  [a_request    |-> requests,
              requests     |-> nxt,
              last_request |-> IF nxt = NULL THEN NULL ELSE last_request,
              num_requests |-> num_requests - 1]
    ELSE [a_request    |-> NULL,
          requests     |-> requests,
          last_request |-> last_request,
          num_requests |-> num_requests]

\* A signal that wakes no thread.
SignalWakesNone == {{}}

\* pthread_cond_signal wakes one waiter when there is one, and none otherwise.
SignalWakes == IF waiters = {} THEN {{}} ELSE {{w} : w \in waiters}

\* A broadcast that wakes one waiter only, as a signal does.
BroadcastWakesOne ==
    IF waiters = {} THEN {} ELSE {CHOOSE w \in waiters : TRUE}

\* pthread_cond_broadcast wakes every waiter.
BroadcastWakes == waiters

\* The number of invocations of record r's function so far.
Invocations(r) == IF r \in DOMAIN invoked THEN invoked[r] ELSE 0

\* invoked after one more invocation of record r's function.
Invoke(r) ==
    IF r \in DOMAIN invoked
    THEN [invoked EXCEPT ![r] = @ + 1]
    ELSE invoked @@ (r :> 1)

\* The work functions a scenario may hand to add_request from main: the
\* program's squareValue, or a function that submits one follow-up item.
Works(n) ==
    {f \in [1..n -> {"squareValue", "submitFollowUp"}] :
        Cardinality({k \in 1..n : f[k] = "submitFollowUp"}) <= MaxFollowUps}

(***************************************************************************)
(* The state after main has initialised the mutexes and the condition      *)
(* variable and created the handler threads.                               *)
(***************************************************************************)
InitShared ==
    /\ request_mutex = Unlocked
    /\ quit_mutex = Unlocked
    /\ waiters = {}
    /\ num_requests = 0
    /\ quit = 0
    /\ requests = NULL
    /\ last_request = NULL
    /\ heap = <<>>
    /\ i = 0
    /\ pc = [t \in Threads |-> IF t = Main THEN "produce" ELSE "start"]
    /\ a_request = [w \in Workers |-> Indeterminate]
    /\ running = [w \in Workers |-> 1]
    /\ new_request = [t \in Threads |-> Indeterminate]
    /\ late = [t \in Threads |-> FALSE]
    /\ enq_log = <<>>
    /\ deq_log = <<>>
    /\ invoked = <<>>

\* The program as written: every item is submitted with squareValue.
AllSquare(n) == [k \in 1..n |-> "squareValue"]

Init ==
    /\ InitShared
    /\ array = SubSeq(InputArray, 1, ArraySize)
    /\ work = AllSquare(ArraySize)

\* The same program on the shorter array.
InitSmall ==
    /\ InitShared
    /\ array = SubSeq(InputArray, 1, SmallArraySize)
    /\ work = AllSquare(SmallArraySize)

\* The scenario of a work function that submits a follow-up item.
InitFollowUp ==
    /\ InitShared
    /\ array = SubSeq(InputArray, 1, SmallArraySize)
    /\ work \in Works(SmallArraySize)

\* The scenario of add_request called from main and from a work function:
\* the first item's function submits a follow-up item, the others square.
InitProducers ==
    /\ InitShared
    /\ array = SubSeq(InputArray, 1, SmallArraySize + 1)
    /\ work = [k \in 1..(SmallArraySize + 1) |->
                IF k = 1 THEN "submitFollowUp" ELSE "squareValue"]

(***************************************************************************)
(* add_request, called by main and by a work function that submits.        *)
(***************************************************************************)

\* The start of a call add_request(func, data, ...) by thread t: the malloc
\* and the filling of the record.
AddCall(t, func, data) ==
    /\ heap' = Append(heap, NewRequest(func, data))
    /\ new_request' = [new_request EXCEPT ![t] = Len(heap) + 1]
    /\ late' = [late EXCEPT ![t] = (quit # 0)]

\* add_request going on to the list without waiting for the mutex.
AddLockWithoutWaiting(t) ==
    /\ pc[t] = "add_lock"
    /\ request_mutex' = t
    /\ pc' = [pc EXCEPT ![t] = "add_enqueue"]
    /\ UNCHANGED <<quit_mutex, waiters, queue, quit, heap, array, work, i,
                   locals, history>>

\* pthread_mutex_lock(p_mutex)
AddLock(t) ==
    /\ pc[t] = "add_lock"
    /\ request_mutex = Unlocked
    /\ request_mutex' = t
    /\ pc' = [pc EXCEPT ![t] = "add_enqueue"]
    /\ UNCHANGED <<quit_mutex, waiters, queue, quit, heap, array, work, i,
                   locals, history>>

\* the list update, num_requests++ and pthread_mutex_unlock(p_mutex)
AddEnqueue(t) ==
    /\ pc[t] = "add_enqueue"
    /\ LET q == Enqueue(new_request[t])
       IN  /\ requests' = q.requests
           /\ last_request' = q.last_request
           /\ heap' = q.heap
           /\ num_requests' = q.num_requests
    /\ enq_log' = Append(enq_log, [rec |-> new_request[t], shut |-> quit # 0,
                                   late |-> late[t]])
    /\ request_mutex' = Unlocked
    /\ pc' = [pc EXCEPT ![t] = "add_signal"]
    /\ UNCHANGED <<quit_mutex, waiters, quit, array, work, i, locals, late,
                   deq_log, invoked>>

\* pthread_cond_signal(p_cond_var), and the return to the caller: main's
\* loop increment, or the rest of the worker's iteration.
AddSignal(t) ==
    /\ pc[t] = "add_signal"
    /\ \E woken \in SignalWakes :
        /\ waiters' = waiters \ woken
        /\ pc' = [x \in Threads |->
                    IF x = t THEN (IF t = Main THEN "produce" ELSE "free")
                    ELSE IF x \in woken THEN "wake" ELSE pc[x]]
    /\ i' = IF t = Main THEN i + 1 ELSE i
    /\ new_request' = [new_request EXCEPT ![t] = Indeterminate]
    /\ late' = [late EXCEPT ![t] = FALSE]
    /\ UNCHANGED <<request_mutex, quit_mutex, queue, quit, heap, array, work,
                   a_request, running, enq_log, deq_log, invoked>>

(***************************************************************************)
(* main                                                                    *)
(***************************************************************************)

\* for (i < array_size): add_request(func, &array[i], ...)
MainSubmit ==
    /\ pc[Main] = "produce"
    /\ i < Len(array)
    /\ AddCall(Main, work[i + 1], i + 1)
    /\ pc' = [pc EXCEPT ![Main] = "add_lock"]
    /\ UNCHANGED <<sync, queue, quit, array, work, i, a_request, running,
                   enq_log, deq_log, invoked>>

\* pthread_mutex_lock(&quit_mutex), after the loop
MainQuitLock ==
    /\ pc[Main] = "produce"
    /\ i >= Len(array)
    /\ quit_mutex = Unlocked
    /\ quit_mutex' = Main
    /\ pc' = [pc EXCEPT ![Main] = "quit_set"]
    /\ UNCHANGED <<request_mutex, waiters, queue, quit, heap, array, work, i,
                   locals, history>>

\* quit = 1; pthread_mutex_unlock(&quit_mutex)
MainQuitSet ==
    /\ pc[Main] = "quit_set"
    /\ quit' = 1
    /\ quit_mutex' = Unlocked
    /\ pc' = [pc EXCEPT ![Main] = "broadcast"]
    /\ UNCHANGED <<request_mutex, waiters, queue, heap, array, work, i,
                   locals, history>>

\* pthread_cond_broadcast(&got_request), and the join loop's i = 0
MainBroadcast ==
    /\ pc[Main] = "broadcast"
    /\ waiters' = waiters \ BroadcastWakes
    /\ pc' = [x \in Threads |->
                IF x = Main THEN "join"
                ELSE IF x \in BroadcastWakes THEN "wake" ELSE pc[x]]
    /\ i' = 0
    /\ UNCHANGED <<request_mutex, quit_mutex, queue, quit, heap, array, work,
                   locals, history>>

\* pthread_join(p_threads[i], NULL) returns once that thread has returned
MainJoin ==
    /\ pc[Main] = "join"
    /\ pc[i + 1] = "done"
    /\ i' = i + 1
    /\ pc' = [pc EXCEPT ![Main] =
                IF i + 1 < NUM_HANDLER_THREADS THEN "join" ELSE "done"]
    /\ UNCHANGED <<sync, queue, quit, heap, array, work, locals, history>>

(***************************************************************************)
(* handle_requests_loop                                                    *)
(***************************************************************************)

\* pthread_mutex_lock(&request_mutex); int running = 1;
WorkerLock(w) ==
    /\ pc[w] = "start"
    /\ request_mutex = Unlocked
    /\ request_mutex' = w
    /\ running' = [running EXCEPT ![w] = 1]
    /\ pc' = [pc EXCEPT ![w] = "loop"]
    /\ UNCHANGED <<quit_mutex, waiters, queue, quit, heap, array, work, i,
                   a_request, new_request, history>>

\* The handling of a request entered with the mutex still held.
StillLockedForHandling(w) == w

\* The mutex after the unlock that precedes the handling of a request.
UnlockForHandling(w) == Unlocked

\* A worker that goes on to the test of quit without handling the request.
AfterGetSkipsHandling(a_req) == "relock"

\* Where a worker goes once get_request has returned a_req: if (a_request).
AfterGet(a_req) == IF a_req # NULL THEN "handle" ELSE "quit_lock"

\* while (running), if (num_requests > 0): a_request = get_request();
\* if (a_request) pthread_mutex_unlock(&request_mutex);
WorkerGet(w) ==
    /\ pc[w] = "loop"
    /\ running[w] # 0
    /\ num_requests > 0
    /\ LET g == get_request
       IN  /\ a_request' = [a_request EXCEPT ![w] = g.a_request]
           /\ requests' = g.requests
           /\ last_request' = g.last_request
           /\ num_requests' = g.num_requests
           /\ deq_log' = IF g.a_request # NULL
                         THEN Append(deq_log, g.a_request)
                         ELSE deq_log
           /\ request_mutex' = IF g.a_request # NULL
                               THEN UnlockForHandling(w)
                               ELSE request_mutex
           /\ pc' = [pc EXCEPT ![w] = AfterGet(g.a_request)]
    /\ UNCHANGED <<quit_mutex, waiters, quit, heap, array, work, i, running,
                   new_request, late, enq_log, invoked>>

\* while (running), else branch: pthread_cond_wait(&got_request,
\* &request_mutex) releases the mutex and blocks on the condition variable,
\* atomically.
WorkerWait(w) ==
    /\ pc[w] = "loop"
    /\ running[w] # 0
    /\ ~(num_requests > 0)
    /\ request_mutex' = Unlocked
    /\ waiters' = waiters \cup {w}
    /\ pc' = [pc EXCEPT ![w] = "waiting"]
    /\ UNCHANGED <<quit_mutex, queue, quit, heap, array, work, i, locals,
                   history>>

\* while (running) fails: pthread_mutex_unlock(&request_mutex); return NULL;
WorkerExit(w) ==
    /\ pc[w] = "loop"
    /\ running[w] = 0
    /\ request_mutex' = Unlocked
    /\ pc' = [pc EXCEPT ![w] = "done"]
    /\ UNCHANGED <<quit_mutex, waiters, queue, quit, heap, array, work, i,
                   locals, history>>

\* handle_request(a_request, thread_id): a_request->func(a_request->data).
\* squareValue squares the array element in place; test_func only prints;
\* a submitting function calls add_request(test_func, NULL, ...).
WorkerHandle(w) ==
    /\ pc[w] = "handle"
    /\ LET req == heap[a_request[w]]
       IN  IF req.func = "submitFollowUp"
           THEN /\ AddCall(w, "test_func", NULL)
                /\ pc' = [pc EXCEPT ![w] = "add_lock"]
                /\ UNCHANGED array
           ELSE /\ array' = IF req.func = "squareValue"
                            THEN [array EXCEPT ![req.data] = squareValue(@)]
                            ELSE array
                /\ pc' = [pc EXCEPT ![w] = "free"]
                /\ UNCHANGED <<heap, new_request, late>>
    /\ invoked' = Invoke(a_request[w])
    /\ UNCHANGED <<sync, queue, quit, work, i, a_request, running, enq_log,
                   deq_log>>

\* free(a_request): the record is released, and the pointer left in
\* a_request no longer has a value.
WorkerFree(w) ==
    /\ pc[w] = "free"
    /\ heap' = [heap EXCEPT ![a_request[w]].freed = TRUE]
    /\ a_request' = [a_request EXCEPT ![w] = Indeterminate]
    /\ pc' = [pc EXCEPT ![w] = "relock"]
    /\ UNCHANGED <<sync, queue, quit, array, work, i, running, new_request,
                   history>>

\* pthread_mutex_lock(&request_mutex), after the request was handled
WorkerRelock(w) ==
    /\ pc[w] = "relock"
    /\ request_mutex = Unlocked
    /\ request_mutex' = w
    /\ pc' = [pc EXCEPT ![w] = "quit_lock"]
    /\ UNCHANGED <<quit_mutex, waiters, queue, quit, heap, array, work, i,
                   locals, history>>

\* pthread_cond_wait may return without a signal (a spurious wakeup).
SpuriousWake(w) ==
    /\ pc[w] = "waiting"
    /\ w \in waiters
    /\ waiters' = waiters \ {w}
    /\ pc' = [pc EXCEPT ![w] = "wake"]
    /\ UNCHANGED <<request_mutex, quit_mutex, queue, quit, heap, array, work,
                   i, locals, history>>

\* pthread_cond_wait returns with the mutex locked again.
WorkerWake(w) ==
    /\ pc[w] = "wake"
    /\ request_mutex = Unlocked
    /\ request_mutex' = w
    /\ pc' = [pc EXCEPT ![w] = "quit_lock"]
    /\ UNCHANGED <<quit_mutex, waiters, queue, quit, heap, array, work, i,
                   locals, history>>

\* pthread_mutex_lock(&quit_mutex)
WorkerQuitLock(w) ==
    /\ pc[w] = "quit_lock"
    /\ quit_mutex = Unlocked
    /\ quit_mutex' = w
    /\ pc' = [pc EXCEPT ![w] = "quit_test"]
    /\ UNCHANGED <<request_mutex, waiters, queue, quit, heap, array, work, i,
                   locals, history>>

\* The test of quit without the unlock of quit_mutex that follows it.
WorkerQuitTestKeepsQuitMutex(w) ==
    /\ pc[w] = "quit_test"
    /\ running' = [running EXCEPT ![w] = IF quit # 0 THEN 0 ELSE @]
    /\ pc' = [pc EXCEPT ![w] = "loop"]
    /\ UNCHANGED <<sync, queue, quit, heap, array, work, i, a_request,
                   new_request, history>>

\* The test of quit by a worker that clears the flag it has seen.
WorkerQuitTestClearsQuit(w) ==
    /\ pc[w] = "quit_test"
    /\ running' = [running EXCEPT ![w] = IF quit # 0 THEN 0 ELSE @]
    /\ quit' = 0
    /\ quit_mutex' = Unlocked
    /\ pc' = [pc EXCEPT ![w] = "loop"]
    /\ UNCHANGED <<request_mutex, waiters, queue, heap, array, work, i,
                   a_request, new_request, history>>

\* if (quit) running = 0; pthread_mutex_unlock(&quit_mutex);
WorkerQuitTest(w) ==
    /\ pc[w] = "quit_test"
    /\ running' = [running EXCEPT ![w] = IF quit # 0 THEN 0 ELSE @]
    /\ quit_mutex' = Unlocked
    /\ pc' = [pc EXCEPT ![w] = "loop"]
    /\ UNCHANGED <<request_mutex, waiters, queue, quit, heap, array, work, i,
                   a_request, new_request, history>>

(***************************************************************************)
(* The program: main and the handler threads, interleaved.                 *)
(***************************************************************************)
MainStep ==
    \/ MainSubmit
    \/ MainQuitLock
    \/ MainQuitSet
    \/ MainBroadcast
    \/ MainJoin

AddStep(t) ==
    \/ AddLock(t)
    \/ AddEnqueue(t)
    \/ AddSignal(t)

WorkerStep(w) ==
    \/ WorkerLock(w)
    \/ WorkerGet(w)
    \/ WorkerWait(w)
    \/ WorkerExit(w)
    \/ WorkerHandle(w)
    \/ WorkerFree(w)
    \/ WorkerRelock(w)
    \/ WorkerWake(w)
    \/ WorkerQuitLock(w)
    \/ WorkerQuitTest(w)

Next ==
    \/ MainStep
    \/ \E t \in Threads : AddStep(t)
    \/ \E w \in Workers : WorkerStep(w)
    \/ \E w \in Workers : SpuriousWake(w)

Spec == Init /\ [][Next]_vars

\* The pool with work functions that may submit a follow-up item.
SpecFollowUp == InitFollowUp /\ [][Next]_vars

\* The pool with two producers: main, and the worker that runs the first
\* item's submitting function.
SpecProducers == InitProducers /\ [][Next]_vars

\* Every step of one thread: a worker's loop and the add_request it may be
\* inside, or main and its add_request. A spurious wakeup is no thread's step.
ThreadStep(t) ==
    IF t = Main THEN MainStep \/ AddStep(Main)
    ELSE WorkerStep(t) \/ AddStep(t)

\* Fair scheduling: a thread that can run again and again does run; a
\* spurious wakeup may never happen.
FairSpec ==
    /\ InitSmall
    /\ [][Next]_vars
    /\ \A t \in Threads : SF_vars(ThreadStep(t))

\* Fair scheduling of a pool that may stay in service: every thread that can
\* run again and again does run, except that main, once its submissions are
\* done, may put off the shutdown for ever.
FairRunning ==
    /\ InitSmall
    /\ [][Next]_vars
    /\ \A w \in Workers : SF_vars(ThreadStep(w))
    /\ SF_vars(MainSubmit \/ AddStep(Main))
    /\ SF_vars(MainQuitSet \/ MainBroadcast \/ MainJoin)

(***************************************************************************)
(* Properties                                                              *)
(***************************************************************************)

\* The records add_request appended while quit was still 0.
SubmittedBeforeQuit ==
    {enq_log[k].rec : k \in {j \in 1..Len(enq_log) : ~enq_log[j].shut}}

\* The records add_request appended, in order.
EnqueuedRecords == [k \in 1..Len(enq_log) |-> enq_log[k].rec]

\* The positions of a worker between get_request's return of a record and
\* the free of that record.
HandlingPcs == {"handle", "add_lock", "add_enqueue", "add_signal", "free"}

\* C1 (no-loss): once main's joins of all the workers have returned, every
\* record that add_request appended before quit was set has had its function
\* invoked exactly once.
C1_NoLoss ==
    pc[Main] = "done" =>
        \A r \in SubmittedBeforeQuit : Invocations(r) = 1

\* C2 (termination of shutdown): under fair scheduling, once main has set
\* quit and broadcast got_request, main's joins eventually return, that is,
\* every worker eventually leaves its loop.
C2_ShutdownTerminates == (pc[Main] = "join") ~> (pc[Main] = "done")

\* C3 (at-most-once): get_request returns no record twice, to the same or
\* to another worker, and no record's function is invoked more than once.
C3_AtMostOnce ==
    /\ \A j, k \in 1..Len(deq_log) : deq_log[j] = deq_log[k] => j = k
    /\ \A r \in 1..Len(heap) : Invocations(r) <= 1

\* Two records were dequeued and both functions have been invoked, while two
\* workers were handling at once.
C3_Witness ==
    /\ Len(deq_log) >= 2
    /\ \A k \in 1..Len(deq_log) : Invocations(deq_log[k]) = 1
    /\ \E v, w \in Workers : v # w /\ pc[v] = "free" /\ pc[w] = "free"

\* C4 (FIFO dequeue): the records removed by get_request, in the order of
\* removal across all workers, are a prefix of the records in the order
\* add_request appended them.
C4_FifoDequeue ==
    /\ Len(deq_log) <= Len(enq_log)
    /\ deq_log = SubSeq(EnqueuedRecords, 1, Len(deq_log))

\* Two records were queued together and both have been dequeued.
C4_Witness ==
    /\ Len(deq_log) >= 2
    /\ \E r \in 1..Len(heap) : heap[r].next # NULL

\* C5 (post-shutdown rejection): no add_request call that began after quit
\* was set appends its record to the list.
C5_PostShutdownRejection ==
    \A k \in 1..Len(enq_log) : ~enq_log[k].late

\* C6 (exit predicate): whenever a worker leaves its loop and terminates,
\* the list is empty and quit is set.
C6_ExitOnlyWhenDrained ==
    [][\A w \in Workers :
          WorkerExit(w) => (num_requests = 0 /\ quit # 0)]_vars

\* C7 (lock released during execution): a worker that is about to run, or
\* is running, a request's function holds neither request_mutex nor
\* quit_mutex, unless the function itself has taken request_mutex inside its
\* own add_request call.
C7_UnlockedWhileHandling ==
    \A w \in Workers :
        pc[w] \in {"handle", "add_lock", "add_signal", "free"} =>
            (request_mutex # w /\ quit_mutex # w)

\* A worker is running a request's function while another thread holds
\* request_mutex.
C7_Witness ==
    \E w \in Workers :
        /\ pc[w] = "handle"
        /\ request_mutex \in Threads \ {w}

\* C8 (shutdown observed only between items): every record get_request has
\* returned is either still being handled by a worker, or its function has
\* been invoked and the record freed; so a worker that reads quit, waits or
\* terminates has left no dequeued record unhandled.
C8_DequeuedRunsToCompletion ==
    \A k \in 1..Len(deq_log) :
        LET r == deq_log[k]
        IN  \/ \E w \in Workers : a_request[w] = r /\ pc[w] \in HandlingPcs
            \/ (Invocations(r) = 1 /\ heap[r].freed)

\* quit has just been set and a worker that dequeued a record reads quit
\* only now, with every dequeued record invoked and freed.
C8_Witness ==
    /\ pc[Main] = "broadcast"
    /\ \E w \in Workers : pc[w] = "quit_test" /\ a_request[w] = Indeterminate
    /\ Len(deq_log) >= 1
    /\ \A k \in 1..Len(deq_log) :
          Invocations(deq_log[k]) = 1 /\ heap[deq_log[k]].freed

\* The records of the follow-up items, which a work function submitted.
FollowUps == {r \in 1..Len(heap) : heap[r].func = "test_func"}

\* C9 (callback-triggered submission): when a work function has submitted a
\* follow-up item before quit was set, both the original item and the
\* follow-up have been executed once main's joins have returned.
C9_FollowUpExecuted ==
    (pc[Main] = "done" /\ FollowUps \cap SubmittedBeforeQuit # {}) =>
        \A r \in SubmittedBeforeQuit :
            (r \in FollowUps \/ heap[r].func = "submitFollowUp") =>
                Invocations(r) = 1

\* C10 (square-in-place): when every item was submitted with squareValue,
\* the array holds the squares of its elements once main's joins have
\* returned.
C10_SquareInPlace ==
    (pc[Main] = "done" /\ \A k \in 1..Len(work) : work[k] = "squareValue") =>
        array = SubSeq(SquaredArray, 1, Len(array))

\* The records reached from p by following next, at most n of them.
RECURSIVE Walk(_, _)
Walk(p, n) ==
    IF n <= 0 \/ p = NULL THEN <<>>
    ELSE <<p>> \o Walk(heap[p].next, n - 1)

\* The records in the list, from the head.
QueuedRecords == Walk(requests, num_requests)

\* The elements of a sequence.
Elements(q) == {q[k] : k \in 1..Len(q)}

\* C11 (no-spurious): every record whose function a worker invokes, or is
\* about to invoke, was appended by add_request before; what get_request
\* returns is a record of the list, and NULL when the list is empty.
C11_NoSpurious ==
    /\ Elements(deq_log) \subseteq Elements(EnqueuedRecords)
    /\ DOMAIN invoked \subseteq Elements(EnqueuedRecords)
    /\ \A w \in Workers :
          pc[w] \in HandlingPcs => a_request[w] \in Elements(EnqueuedRecords)
    /\ IF num_requests = 0
       THEN get_request.a_request = NULL
       ELSE get_request.a_request \in Elements(QueuedRecords)

\* A record's function was invoked while main holds a record that it has
\* allocated and not yet appended, and the list is not empty.
C11_Witness ==
    /\ \E r \in 1..Len(heap) : Invocations(r) = 1
    /\ Len(heap) > Len(enq_log)
    /\ num_requests > 0

\* C12 (wait predicate): a worker enters pthread_cond_wait only when the
\* list is empty and quit is false; no worker begins to wait after quit was
\* set.
C12_WaitPredicate ==
    [][\A w \in Workers :
         WorkerWait(w) => (num_requests = 0 /\ quit = 0)]_vars

\* C13 (shutdown flag under the queue mutex): every thread about to write
\* quit (main) or to read it (a worker's test) holds request_mutex, the
\* mutex passed to pthread_cond_wait.
C13_QuitUnderRequestMutex ==
    /\ pc[Main] = "quit_set" => request_mutex = Main
    /\ \A w \in Workers : pc[w] = "quit_test" => request_mutex = w

\* The positions at which a thread reads or writes requests, last_request
\* or num_requests: add_request's list update, and the worker's test of
\* num_requests with the get_request that follows it.
QueueAccessPcs == {"add_enqueue", "loop"}

\* C14 (mutual exclusion over the queue): a thread about to read or write
\* requests, last_request or num_requests holds request_mutex, so at most one
\* thread is at such a position.
C14_QueueMutualExclusion ==
    /\ \A t \in Threads : pc[t] \in QueueAccessPcs => request_mutex = t
    /\ Cardinality({t \in Threads : pc[t] \in QueueAccessPcs}) <= 1

\* Main is at the list update of add_request while one worker waits to lock
\* request_mutex after handling a request and another after a wakeup.
C14_Witness ==
    /\ pc[Main] = "add_enqueue"
    /\ request_mutex = Main
    /\ \E w \in Workers : pc[w] = "relock"
    /\ \E w \in Workers : pc[w] = "wake"

\* C15 (queue structure): whenever no thread holds request_mutex, the head
\* and the tail are non-NULL exactly when num_requests > 0, they are the same
\* record when num_requests = 1, the tail's next is NULL, and following next
\* from the head reaches the tail after exactly num_requests - 1 steps.
C15_QueueStructure ==
    request_mutex = Unlocked =>
        /\ (requests # NULL) <=> (num_requests > 0)
        /\ (last_request # NULL) <=> (num_requests > 0)
        /\ num_requests = 1 => requests = last_request
        /\ num_requests > 0 =>
              /\ heap[last_request].next = NULL
              /\ Len(QueuedRecords) = num_requests
              /\ QueuedRecords[num_requests] = last_request
              /\ \A k \in 1..(num_requests - 1) :
                    QueuedRecords[k] # last_request

\* The mutex is free and the list holds two records or more after a record
\* was removed from it.
C15_Witness ==
    /\ request_mutex = Unlocked
    /\ num_requests >= 2
    /\ Len(deq_log) >= 1

\* C16 (length accounting): whenever no thread holds request_mutex,
\* num_requests is the number of completed appends minus the number of
\* successful removals, and is not negative, also while main and a work
\* function are both inside add_request.
C16_LengthAccounting ==
    request_mutex = Unlocked =>
        /\ num_requests = Len(enq_log) - Len(deq_log)
        /\ num_requests >= 0

\* Main and a worker were inside add_request together, both have appended
\* their record and neither call has returned; the mutex is free.
C16_Witness ==
    /\ request_mutex = Unlocked
    /\ pc[Main] = "add_signal"
    /\ \E w \in Workers : pc[w] = "add_signal"
    /\ num_requests = 2
    /\ Len(deq_log) = 1

\* C17 (monotonic shutdown): quit starts false and, once true, is never
\* reset; a worker's running flag, once cleared, is never set again.
C17_MonotonicShutdown ==
    /\ quit = 0
    /\ [][/\ quit # 0 => quit' # 0
          /\ \A w \in Workers : running[w] = 0 => running'[w] = 0]_vars

\* quit is set, one worker has cleared running and returned, and another,
\* still running, has gone through its test of quit again.
C17_Witness ==
    /\ quit # 0
    /\ \E w \in Workers : running[w] = 0 /\ pc[w] = "done"
    /\ \E w \in Workers : running[w] # 0 /\ pc[w] = "quit_test"

\* C18 (shutdown wake-up): the broadcast that follows quit = 1 wakes every
\* worker blocked in pthread_cond_wait at that moment, and under fair
\* scheduling each such worker locks request_mutex again, sees quit set and
\* returns, with request_mutex released.
C18_BroadcastTerminatesWaiters ==
    /\ [][MainBroadcast =>
            \A w \in waiters : pc'[w] = "wake" /\ w \notin waiters']_vars
    /\ \A w \in Workers :
          (pc[Main] = "broadcast" /\ w \in waiters)
              ~> (pc[w] = "done" /\ running[w] = 0 /\ request_mutex # w)

\* The broadcast found all the workers waiting and has woken them.
C18_Witness ==
    /\ pc[Main] = "join"
    /\ quit # 0
    /\ waiters = {}
    /\ \A w \in Workers : pc[w] = "wake"

\* C19 (liveness while running): as long as quit is not set, under fair
\* scheduling every record appended by add_request is eventually removed from
\* the list by a worker and its function invoked, although add_request
\* signals one waiter only, and after it has unlocked the mutex.
C19_EnqueuedEventuallyExecuted ==
    \A r \in 1..SmallArraySize :
        (r \in Elements(EnqueuedRecords))
            ~> ((r \in Elements(deq_log) /\ Invocations(r) >= 1) \/ quit # 0)

\* Main has submitted its items and has not begun the shutdown; every item was
\* executed and all the workers wait again.
C19_Witness ==
    /\ quit = 0
    /\ pc[Main] = "produce"
    /\ quit_mutex = Unlocked
    /\ waiters = Workers
    /\ \A r \in 1..SmallArraySize : Invocations(r) = 1

\* The positions at which a thread is about to lock request_mutex.
RequestLockPcs == {"start", "add_lock", "relock", "wake"}

\* Thread t is about to lock quit_mutex: a worker before its test of quit,
\* main after its submission loop.
AtQuitLock(t) ==
    IF t = Main
    THEN pc[Main] = "produce" /\ i >= Len(array)
    ELSE pc[t] = "quit_lock"

\* The thread that holds the mutex t is blocked on, or Unlocked when t is
\* not blocked.
BlockedOn(t) ==
    IF pc[t] \in RequestLockPcs THEN request_mutex
    ELSE IF AtQuitLock(t) THEN quit_mutex
    ELSE Unlocked

\* C20 (lock ordering): a worker locks quit_mutex holding request_mutex,
\* main locks it holding no mutex; no thread that holds quit_mutex is about
\* to lock request_mutex; no thread is blocked on a mutex held by itself or
\* by a thread blocked on a mutex it holds; a worker that has returned
\* holds neither mutex.
C20_LockOrdering ==
    /\ \A w \in Workers :
          pc[w] \in {"quit_lock", "quit_test"} => request_mutex = w
    /\ AtQuitLock(Main) => request_mutex # Main /\ quit_mutex # Main
    /\ pc[Main] = "quit_set" => request_mutex # Main /\ quit_mutex = Main
    /\ \A t \in Threads : pc[t] \in RequestLockPcs => quit_mutex # t
    /\ \A t \in Threads :
          /\ BlockedOn(t) # t
          /\ BlockedOn(t) # Unlocked => BlockedOn(BlockedOn(t)) # t
    /\ \A w \in Workers :
          pc[w] = "done" => request_mutex # w /\ quit_mutex # w

\* A worker that holds request_mutex is blocked on quit_mutex, held by main,
\* while another worker is about to lock request_mutex and a third waits on
\* the condition variable.
C20_Witness ==
    /\ quit_mutex = Main
    /\ \E w \in Workers : pc[w] = "quit_lock" /\ request_mutex = w
    /\ \E w \in Workers : pc[w] \in RequestLockPcs
    /\ \E w \in Workers : pc[w] = "waiting"

====
